---- MODULE Spec2Model ----
(***************************************************************************)
(* Drone communication layer of drone_mobile: the Drone Link               *)
(* (services/telloService.js) and the session thunks connectAndStream and  *)
(* disconnect with their Redux slice (store/telloSlice.js, kept in         *)
(* src/src/screens/MainScreen.js lines 312-460).                           *)
(*                                                                         *)
(* JavaScript runs the code between two awaits to completion.  Every       *)
(* action below is one such run: a UI event, a transport callback or a     *)
(* timer, followed by the code it resumes, up to the next await that has   *)
(* to wait.  A thunk that has returned is kept as "done" until the code    *)
(* awaiting it has run; that code is a microtask, and runs before any      *)
(* further event, timer or callback: the events are guarded by NoMicrotask.*)
(* The run in which a connect succeeds is cut in two, after                *)
(* dispatch(setStreaming(true)): the store holds the state between that    *)
(* dispatch and the one in the finally block, and subscribers are called   *)
(* with it.  The other runs are kept whole.                                 *)
(*                                                                         *)
(* Spec is the link and the session.  FlightSpec adds the flight controls  *)
(* of MainScreen.js (lines 114-144) and its app-state handler (89-95);     *)
(* they change the error slot and hand datagrams to the socket, nothing    *)
(* else.                                                                   *)
(*                                                                         *)
(* Thunks in flight carry no identity in the program, so they are kept in  *)
(* bags.  The disconnect a connect dispatches from its catch block is the  *)
(* field td of the connect's record.                                       *)
(***************************************************************************)
EXTENDS Integers, Sequences, FiniteSets, Bags, TLC

\* ---------------------------------------------------------------- bounds
MaxConn == 1        \* connectAndStream thunks in flight at once
MaxDisc == 1        \* disconnect thunks dispatched by the UI in flight at once
MaxSock == 2        \* sockets created and not released at once
MaxFlight == 1      \* flight commands handed to the socket whose send callback is due

\* ------------------------------------------------------- program constants
NoError == <<"null", "">>
ConnectError(payload) == <<"Connect Error", payload>>
NotOpen == "Socket not initialized"

\* inbound datagram texts, as sequences of characters
Msgs == { <<"o", "k">>, <<"a", ":", "1", ";">>, <<"a", ":", "1">>, <<"a", ";">>,
          <<"e", "r", "r", "o", "r">>, <<"a", ":", "1", ";", "b", ":", "2", ";">>,
          <<"e", "r", "r", "o", "r", ":", "1", ";">> }

\* the object literal {} and the result of a call that was not made
EmptyMap == [k \in {} |-> <<>>]
NoCall == [ret |-> "none", data |-> EmptyMap]

\* the steps of the two thunks in program order; a failed step leaves
\* "<step>:err" in the log instead of "<step>:ok"
ConnectOrder == <<"open", "open:ok", "command", "command:ok", "streamon", "streamon:ok",
                  "relayStart", "relayStart:ok", "live">>
DisconnectOrder == <<"relayStop", "streamoff", "close", "unlock">>

VARIABLES
    commandSocket,   \* telloService.js:8   0 is null, 1 is a bound socket
    statusCallback,  \* telloService.js:9   "null" | "undefined" | "handler"
    mountBinding,    \* the socket of the mount effect's initialize() awaits its bind callback
    leaked,          \* sockets bound, never released and no longer referenced
    failed,          \* sockets whose bind failed; nothing releases them
    isConnecting,    \* state.tello.isConnecting
    isStreaming,     \* state.tello.isStreaming
    errorMessage,    \* state.tello.errorMessage
    relayRunning,    \* ffmpegService: the relay process is up
    mounted,         \* MainScreen's service-init effect has run
    conns,           \* the connectAndStream thunks in flight
    discs,           \* the disconnect thunks the UI dispatched, in flight
    notified,        \* what the latest transport event handler did: "parse" for a call of
                     \* parseStatusString, "snapshot" and "error" for calls of the observer
    statusStr,       \* the argument of the parseStatusString call the latest step made
    parsedData,      \* what that call returned; the observer is called with its data
    interrupted,     \* history: disconnect was requested while a connect was in flight,
                     \* and handleConnect has started no connect since
    closedPending,   \* history: close() was called while a socket awaited its bind
                     \* callback, one still does, and initialize was not called since
    alertGate,       \* the emergency confirmation is shown: the isConnected that the
                     \* sendFlightCommand held by its onPress closes over, or "none"
    flights          \* flight commands handed to the socket, send callback due

vars == <<commandSocket, statusCallback, mountBinding, leaked, failed, isConnecting, isStreaming,
          errorMessage, relayRunning, mounted, conns, discs, notified, statusStr, parsedData,
          interrupted, closedPending, alertGate, flights>>

linkVars == <<commandSocket, statusCallback, mountBinding, leaked, failed>>
reduxVars == <<isConnecting, isStreaming, errorMessage>>
historyVars == <<interrupted, closedPending>>
parseVars == <<statusStr, parsedData>>
flightVars == <<alertGate, flights>>

IdleDisc == [pc |-> "idle", log |-> <<>>, allFailed |-> TRUE, outcome |-> "none"]
IdleConn == [pc |-> "idle", cause |-> "none", log |-> <<>>, outcome |-> "none",
             td |-> IdleDisc]

Init ==
    /\ commandSocket = 0
    /\ statusCallback = "null"
    /\ mountBinding = FALSE
    /\ leaked = 0
    /\ failed = 0
    /\ isConnecting = FALSE
    /\ isStreaming = FALSE
    /\ errorMessage = NoError
    /\ relayRunning = FALSE
    /\ mounted = FALSE
    /\ conns = EmptyBag
    /\ discs = EmptyBag
    /\ notified = <<>>
    /\ statusStr = <<>>
    /\ parsedData = NoCall
    /\ interrupted = FALSE
    /\ closedPending = FALSE
    /\ alertGate = "none"
    /\ flights = 0

\* ------------------------------------------------------------------ bags
Conns == BagToSet(conns)
Discs == BagToSet(discs)
Put(b, e) == b (+) SetToBag({e})
Del(b, e) == b (-) SetToBag({e})
Swap(b, old, new) == Put(Del(b, old), new)

\* every disconnect thunk in flight: the UI's, and the ones connects are awaiting
Teardowns == Discs \cup {r.td : r \in {x \in Conns : x.pc = "awaitDisc"}}

\* ------------------------------------------------------------ scheduling
Truthy(cb) == cb = "handler"

\* no thunk has returned without the code awaiting it having run, and no
\* connect stands between its setStreaming(true) and its finally block
NoMicrotask ==
    /\ \A r \in Conns : r.pc \notin {"done", "finally"} /\ r.td.pc # "done"
    /\ \A d \in Discs : d.pc # "done"


\* ------------------------------------------------------- Telemetry Codec
\* texts are sequences of characters
Whitespace == {" ", "\n"}
ErrorKey == <<"e", "r", "r", "o", "r">>
ProtoKey == <<"_", "_", "p", "r", "o", "t", "o", "_", "_">>

\* String.prototype.includes with a one-character argument
RECURSIVE Includes(_, _)
Includes(s, ch) ==
    IF s = <<>> THEN FALSE
    ELSE IF Head(s) = ch THEN TRUE ELSE Includes(Tail(s), ch)

\* String.prototype.split with a one-character separator: every occurrence
\* of the separator ends a fragment, so "a:1;" gives "a:1" and ""
RECURSIVE Split(_, _)
Split(s, sep) ==
    IF s = <<>> THEN << <<>> >>
    ELSE IF Head(s) = sep THEN << <<>> >> \o Split(Tail(s), sep)
    ELSE LET rest == Split(Tail(s), sep)
         IN  << <<Head(s)>> \o Head(rest) >> \o Tail(rest)

RECURSIVE TrimStart(_)
TrimStart(s) ==
    IF s # <<>> /\ Head(s) \in Whitespace THEN TrimStart(Tail(s)) ELSE s

RECURSIVE TrimEnd(_)
TrimEnd(s) ==
    IF s # <<>> /\ s[Len(s)] \in Whitespace THEN TrimEnd(SubSeq(s, 1, Len(s) - 1)) ELSE s

\* variant: only leading whitespace is removed
TrimStartOnly(s) == TrimStart(s)

\* String.prototype.trim
Trim(s) == TrimEnd(TrimStart(s))

\* statusData[key] = value on an object created by {}: an own property is
\* added or overwritten, except for the key "__proto__", which is the
\* accessor inherited from Object.prototype; its setter ignores a string
SetField(statusData, key, value) ==
    IF key = ProtoKey THEN statusData
    ELSE [k \in DOMAIN statusData \cup {key} |-> IF k = key THEN value ELSE statusData[k]]

\* variant: a fragment without ':' discards what was collected so far
ParsePairResets(statusData, pair) ==
    IF pair # <<>> /\ Includes(pair, ":")
    THEN LET parts == Split(pair, ":")
             key == parts[1]
             value == parts[2]
         IN  IF key # <<>> /\ Trim(key) # <<>>
             THEN SetField(statusData, Trim(key), Trim(value))
             ELSE statusData
    ELSE EmptyMap

\* the callback of forEach: const [key, value] = pair.split(':') takes the
\* first two pieces of the fragment
ParsePair(statusData, pair) ==
    IF pair # <<>> /\ Includes(pair, ":")
    THEN LET parts == Split(pair, ":")
             key == parts[1]
             value == parts[2]
         IN  IF key # <<>> /\ Trim(key) # <<>>
             THEN SetField(statusData, Trim(key), Trim(value))
             ELSE statusData
    ELSE statusData

RECURSIVE ParsePairs(_, _)
ParsePairs(statusData, pairs) ==
    IF pairs = <<>> THEN statusData
    ELSE ParsePairs(ParsePair(statusData, Head(pairs)), Tail(pairs))

\* parseStatusString: no call in its try block can throw on a string, so it
\* always returns the object
ParseStatusString(statusStr_) ==
    [ret |-> "object", data |-> ParsePairs(EmptyMap, Split(statusStr_, ";"))]

\* statusData.error of a snapshot, as handleStatusUpdate tests it: "" when
\* the field is missing or empty
ErrorField(data) ==
    IF ErrorKey \in DOMAIN data /\ data[ErrorKey] # <<>> THEN "field" ELSE ""

\* the step calls parseStatusString not at all
NoParse ==
    /\ statusStr' = <<>>
    /\ parsedData' = NoCall


\* ----------------------------------------------------- telloSlice reducers
\* connectAndStream.pending, then setError(null) and setConnecting(true)
ConnectPending ==
    /\ isConnecting' = TRUE
    /\ errorMessage' = NoError
    /\ UNCHANGED isStreaming

\* dispatch(setStreaming(true)); the state it leaves is the store's state
\* until the next dispatch
SetStreamingTrue ==
    /\ isStreaming' = TRUE
    /\ UNCHANGED <<isConnecting, errorMessage>>

\* variant: no finally block, and the fulfilled reducer leaves isConnecting
ConnectFulfilledKeepsConnecting ==
    UNCHANGED <<isStreaming, isConnecting, errorMessage>>

\* setConnecting(false) in finally, then connectAndStream.fulfilled
ConnectFulfilled ==
    /\ isConnecting' = FALSE
    /\ UNCHANGED <<isStreaming, errorMessage>>

\* setConnecting(false) in finally, then connectAndStream.rejected
ConnectRejected(payload) ==
    /\ isConnecting' = FALSE
    /\ isStreaming' = FALSE
    /\ errorMessage' = ConnectError(payload)

\* variant: the two flags are left for the end of the thunk
DisconnectMarkLate ==
    UNCHANGED <<isStreaming, isConnecting>>

\* setStreaming(false) and setConnecting(false) at the head of disconnect
DisconnectMarkIdle ==
    /\ isStreaming' = FALSE
    /\ isConnecting' = FALSE

\* variant: the thunk does not clear the error and the reducer keeps it
DisconnectFulfilledKeepsError ==
    /\ isConnecting' = FALSE
    /\ isStreaming' = FALSE
    /\ UNCHANGED errorMessage

\* setError(null) at the end of disconnect, then disconnect.fulfilled
DisconnectFulfilled ==
    /\ isConnecting' = FALSE
    /\ isStreaming' = FALSE
    /\ errorMessage' = NoError

\* ------------------------------------------------------------ Drone Link
\* variant: || in place of && in the test
LooksLikeTelemetryEither(m) == Includes(m, ":") \/ Includes(m, ";")

\* the 'message' handler's test for a telemetry text
LooksLikeTelemetry(m) == Includes(m, ":") /\ Includes(m, ";")

\* connects whose initialize() awaits the bind callback of its socket
ConnBinding == BagCardinality([r \in {x \in Conns : x.pc = "awaitInit"} |-> conns[r]])

\* sockets created and not released
Allocated == commandSocket + (IF mountBinding THEN 1 ELSE 0) + ConnBinding + leaked + failed

\* initialize(cb) up to its return.  r is what the call finds:
\*   "open"      the link is open already: resolves at once
\*   "errCreate" createSocket throws: rejects at once
\*   "pending"   a socket is created and its bind callback is awaited
Initialize(cb, r) ==
    /\ statusCallback' = cb
    /\ r = "open" <=> commandSocket # 0
    /\ r = "pending" => Allocated < MaxSock
    /\ UNCHANGED <<commandSocket, leaked, failed>>

\* variant: sendCommand without the test of commandSocket
SendCommandUnchecked == "pending"

\* sendCommand(cmd) up to its return: rejected at once when the link is not
\* open, otherwise the transport's send callback is awaited
SendCommand == IF commandSocket = 0 THEN NotOpen ELSE "pending"

\* the error of a send the transport reports as failed
SendError(cmd) == IF cmd = "command" THEN "errSend:command"
                  ELSE IF cmd = "streamon" THEN "errSend:streamon"
                  ELSE "errSend:streamoff"

\* variant: no finally block, the two variables are cleared after a
\* socket.close() that returns
CloseNoFinally(thrown) ==
    IF commandSocket # 0 /\ ~thrown
    THEN /\ commandSocket' = 0
         /\ statusCallback' = "null"
    ELSE UNCHANGED <<commandSocket, statusCallback>>

\* close(): always resolves; an open link is released and forgotten together
\* with the observer, whether or not socket.close() throws (thrown); with no
\* socket held it does nothing
Close(thrown) ==
    IF commandSocket # 0
    THEN /\ commandSocket' = 0
         /\ statusCallback' = "null"
    ELSE UNCHANGED <<commandSocket, statusCallback>>

\* the bind callback of a socket created by initialize.  A socket that was
\* held in commandSocket before is overwritten, still bound.
BindResult(err) ==
    /\ leaked' = leaked + commandSocket
    /\ failed' = IF err THEN failed + 1 ELSE failed
    /\ IF err
       THEN /\ commandSocket' = 0
            /\ statusCallback' = "null"
       ELSE /\ commandSocket' = 1
            /\ UNCHANGED statusCallback

\* handleStatusUpdate(statusData): a payload with a non-empty error field
\* (err) goes to setError, any other to updateStatus, which touches none of
\* the fields modelled here
HandleStatusUpdate(err) ==
    IF err # ""
    THEN /\ errorMessage' = <<"Status Listener Error", err>>
         /\ UNCHANGED <<isConnecting, isStreaming>>
    ELSE UNCHANGED reduxVars

\* the socket's 'error' handler: close(), then the observer if one is left
SocketError ==
    /\ NoMicrotask
    /\ Allocated > 0
    /\ \E thrown \in BOOLEAN : (thrown => commandSocket # 0) /\ Close(thrown)
    /\ IF Truthy(statusCallback')
       THEN /\ notified' = <<"error">>
            /\ HandleStatusUpdate("socket")
       ELSE /\ notified' = <<>>
            /\ UNCHANGED reduxVars
    /\ NoParse
    /\ UNCHANGED flightVars
    /\ closedPending' = (mountBinding \/ ConnBinding > 0)
    /\ UNCHANGED interrupted
    /\ UNCHANGED <<mountBinding, leaked, failed, relayRunning, mounted, conns, discs>>

\* variant: statusData is not created per call, the fields of earlier
\* datagrams stay in the object handed to the observer
MessageAccumulates(m) ==
    /\ NoMicrotask
    /\ commandSocket + leaked > 0
    /\ IF LooksLikeTelemetry(m)
       THEN /\ statusStr' = m
            /\ parsedData' = [ret |-> "object",
                              data |-> ParsePairs(parsedData.data, Split(m, ";"))]
            /\ IF parsedData'.ret = "object" /\ Truthy(statusCallback)
               THEN /\ notified' = <<"parse", "snapshot">>
                    /\ HandleStatusUpdate(ErrorField(parsedData'.data))
               ELSE /\ notified' = <<"parse">>
                    /\ UNCHANGED reduxVars
       ELSE /\ notified' = <<>>
            /\ NoParse
            /\ UNCHANGED reduxVars
    /\ UNCHANGED <<linkVars, relayRunning, mounted, conns, discs, historyVars, flightVars>>

\* the socket's 'message' handler: a text that looks like telemetry goes to
\* parseStatusString, and its result, unless null, to the observer if there
\* is one; any other text is logged
Message(m) ==
    /\ NoMicrotask
    /\ commandSocket + leaked > 0
    /\ IF LooksLikeTelemetry(m)
       THEN /\ statusStr' = m
            /\ parsedData' = ParseStatusString(m)
            /\ IF parsedData'.ret = "object" /\ Truthy(statusCallback)
               THEN /\ notified' = <<"parse", "snapshot">>
                    /\ HandleStatusUpdate(ErrorField(parsedData'.data))
               ELSE /\ notified' = <<"parse">>
                    /\ UNCHANGED reduxVars
       ELSE /\ notified' = <<>>
            /\ NoParse
            /\ UNCHANGED reduxVars
    /\ UNCHANGED <<linkVars, relayRunning, mounted, conns, discs, historyVars, flightVars>>

\* ------------------------------------------- MainScreen service-init effect
Mount(r) ==
    /\ ~mounted
    /\ mounted' = TRUE
    /\ Initialize("handler", r)
    /\ mountBinding' = (r = "pending")
    /\ IF r = "errCreate"
       THEN /\ errorMessage' = <<"Service Init Failed", "errCreate">>
            /\ UNCHANGED <<isConnecting, isStreaming>>
       ELSE UNCHANGED reduxVars
    /\ notified' = <<>>
    /\ NoParse
    /\ UNCHANGED flightVars
    /\ closedPending' = FALSE
    /\ UNCHANGED interrupted
    /\ UNCHANGED <<relayRunning, conns, discs>>

MountBindCallback(err) ==
    /\ NoMicrotask
    /\ mountBinding
    /\ mountBinding' = FALSE
    /\ BindResult(err)
    /\ IF err
       THEN /\ errorMessage' = <<"Service Init Failed", "errBind">>
            /\ UNCHANGED <<isConnecting, isStreaming>>
       ELSE UNCHANGED reduxVars
    /\ notified' = <<>>
    /\ NoParse
    /\ UNCHANGED flightVars
    /\ closedPending' = (closedPending /\ ConnBinding > 0)
    /\ UNCHANGED interrupted
    /\ UNCHANGED <<relayRunning, mounted, conns, discs>>

\* ------------------------------------------------------- disconnect thunk
\* the thunk after its first run: flags cleared, ffmpegService.stop() awaited
StartedDisc == [pc |-> "awaitStop", log |-> <<"relayStop">>, allFailed |-> TRUE,
                outcome |-> "none"]

\* the steps that follow the 100 ms wait
DisconnectTail == <<"close", "unlock">>

\* a disconnect in flight is named by its holder: the UI's thunk itself, or
\* the connect that awaits it
TdTargets == {<<"ui", d>> : d \in Discs} \cup
             {<<"conn", r>> : r \in {x \in Conns : x.pc = "awaitDisc"}}
TdRec(t) == IF t[1] = "ui" THEN t[2] ELSE t[2].td
TdPut(t, d2) ==
    IF t[1] = "ui"
    THEN /\ discs' = Swap(discs, t[2], d2)
         /\ UNCHANGED conns
    ELSE /\ conns' = Swap(conns, t[2], [t[2] EXCEPT !.td = d2])
         /\ UNCHANGED discs

\* handleDisconnect: dispatch(disconnect())
HandleDisconnect ==
    /\ mounted
    /\ alertGate = "none"
    /\ NoMicrotask
    /\ BagCardinality(discs) < MaxDisc
    /\ DisconnectMarkIdle
    /\ discs' = Put(discs, StartedDisc)
    /\ UNCHANGED closedPending
    /\ interrupted' = (interrupted \/ \E r \in Conns : r.pc # "done")
    /\ notified' = <<>>
    /\ NoParse
    /\ UNCHANGED flightVars
    /\ UNCHANGED <<linkVars, errorMessage, relayRunning, mounted, conns>>

\* variant: a failed relay stop ends the thunk
RelayStopAborts(t, ok) ==
    /\ NoMicrotask
    /\ t \in TdTargets
    /\ TdRec(t).pc = "awaitStop"
    /\ relayRunning' = IF ok THEN FALSE ELSE relayRunning
    /\ IF ok
       THEN /\ TdPut(t, [TdRec(t) EXCEPT
                   !.pc = IF SendCommand = NotOpen THEN "delay" ELSE "awaitOff",
                   !.log = Append(@, "streamoff"),
                   !.allFailed = FALSE])
            /\ UNCHANGED reduxVars
       ELSE /\ TdPut(t, [TdRec(t) EXCEPT !.pc = "done", !.outcome = "fulfilled"])
            /\ DisconnectFulfilled
    /\ notified' = <<>>
    /\ NoParse
    /\ UNCHANGED flightVars
    /\ UNCHANGED historyVars
    /\ UNCHANGED <<linkVars, mounted>>

\* variant: the rejection of sendCommand('streamoff') is not caught, the
\* thunk is rejected and disconnect.rejected runs
RelayStopRethrows(t, ok) ==
    /\ NoMicrotask
    /\ t \in TdTargets
    /\ TdRec(t).pc = "awaitStop"
    /\ relayRunning' = IF ok THEN FALSE ELSE relayRunning
    /\ IF SendCommand = NotOpen
       THEN /\ TdPut(t, [TdRec(t) EXCEPT !.pc = "done",
                                         !.log = Append(@, "streamoff"),
                                         !.allFailed = @ /\ ~ok,
                                         !.outcome = "rejected"])
            /\ isConnecting' = FALSE
            /\ isStreaming' = FALSE
            /\ errorMessage' = <<"Cleanup might have failed. Check logs.", "">>
       ELSE /\ TdPut(t, [TdRec(t) EXCEPT !.pc = "awaitOff",
                                         !.log = Append(@, "streamoff"),
                                         !.allFailed = @ /\ ~ok])
            /\ UNCHANGED reduxVars
    /\ notified' = <<>>
    /\ NoParse
    /\ UNCHANGED flightVars
    /\ UNCHANGED historyVars
    /\ UNCHANGED <<linkVars, mounted>>

\* ffmpegService.stop() settles; either way sendCommand('streamoff') is next,
\* and a rejection of it is swallowed and followed by the 100 ms wait
RelayStopSettles(t, ok) ==
    /\ NoMicrotask
    /\ t \in TdTargets
    /\ TdRec(t).pc = "awaitStop"
    /\ relayRunning' = IF ok THEN FALSE ELSE relayRunning
    /\ TdPut(t, [TdRec(t) EXCEPT
                   !.pc = IF SendCommand = NotOpen THEN "delay" ELSE "awaitOff",
                   !.log = Append(@, "streamoff"),
                   !.allFailed = @ /\ ~ok])
    /\ notified' = <<>>
    /\ NoParse
    /\ UNCHANGED flightVars
    /\ UNCHANGED historyVars
    /\ UNCHANGED <<linkVars, reduxVars, mounted>>

\* the send callback of 'streamoff'
DiscSendCallback(t, err) ==
    /\ NoMicrotask
    /\ t \in TdTargets
    /\ TdRec(t).pc = "awaitOff"
    /\ TdPut(t, [TdRec(t) EXCEPT !.pc = "delay", !.allFailed = @ /\ err])
    /\ notified' = <<>>
    /\ NoParse
    /\ UNCHANGED flightVars
    /\ UNCHANGED historyVars
    /\ UNCHANGED <<linkVars, reduxVars, relayRunning, mounted>>

\* the 100 ms timer fires: close(), unlock(), setError(null), return true.
\* thrown: socket.close() throws inside close()
DisconnectFinish(t, thrown) ==
    /\ NoMicrotask
    /\ t \in TdTargets
    /\ TdRec(t).pc = "delay"
    /\ thrown => commandSocket # 0
    /\ Close(thrown)
    /\ DisconnectFulfilled
    /\ TdPut(t, [TdRec(t) EXCEPT
                   !.pc = "done",
                   !.log = @ \o DisconnectTail,
                   !.allFailed = @ /\ thrown,
                   !.outcome = "fulfilled"])
    /\ notified' = <<>>
    /\ NoParse
    /\ UNCHANGED flightVars
    /\ closedPending' = (mountBinding \/ ConnBinding > 0)
    /\ UNCHANGED interrupted
    /\ UNCHANGED <<mountBinding, leaked, failed, relayRunning, mounted>>

\* handleDisconnect's promise has settled; nothing is attached to it
DisconnectSettled(d) ==
    /\ d \in Discs
    /\ d.pc = "done"
    /\ discs' = Del(discs, d)
    /\ notified' = <<>>
    /\ NoParse
    /\ UNCHANGED flightVars
    /\ UNCHANGED historyVars
    /\ UNCHANGED <<linkVars, reduxVars, relayRunning, mounted, conns>>

\* ------------------------------------------------- connectAndStream thunk
\* the catch block: dispatch(disconnect()) and await it
ConnectFail(r, why, log) ==
    [r EXCEPT !.pc = "awaitDisc", !.cause = why, !.log = log, !.td = StartedDisc]

\* handleConnect: dispatch(connectAndStream()) when neither connecting nor
\* connected; initialize() is called without an observer
HandleConnect(r) ==
    /\ mounted
    /\ alertGate = "none"
    /\ NoMicrotask
    /\ ~isConnecting /\ ~isStreaming
    /\ BagCardinality(conns) < MaxConn
    /\ Initialize("undefined", r)
    /\ IF r = "errCreate"
       THEN /\ DisconnectMarkIdle
            /\ errorMessage' = NoError
       ELSE ConnectPending
    /\ conns' = Put(conns,
         IF r = "errCreate" THEN ConnectFail(IdleConn, "errCreate", <<"open", "open:err">>)
         ELSE IF r = "pending" THEN [IdleConn EXCEPT !.pc = "awaitInit", !.log = <<"open">>]
         ELSE [IdleConn EXCEPT !.pc = "awaitCmd",
                               !.log = <<"open", "open:ok", "command">>])
    /\ notified' = <<>>
    /\ NoParse
    /\ UNCHANGED flightVars
    /\ interrupted' = FALSE
    /\ closedPending' = FALSE
    /\ UNCHANGED <<mountBinding, relayRunning, mounted, discs>>

\* the bind callback of the socket a connect created; on success
\* sendCommand('command') follows
ConnBindCallback(r, err) ==
    /\ NoMicrotask
    /\ r \in Conns
    /\ r.pc = "awaitInit"
    /\ BindResult(err)
    /\ IF err
       THEN /\ conns' = Swap(conns, r, ConnectFail(r, "errBind", Append(r.log, "open:err")))
            /\ DisconnectMarkIdle
            /\ UNCHANGED errorMessage
       ELSE /\ conns' = Swap(conns, r, [r EXCEPT !.pc = "awaitCmd",
                                          !.log = @ \o <<"open:ok", "command">>])
            /\ UNCHANGED reduxVars
    /\ notified' = <<>>
    /\ NoParse
    /\ UNCHANGED flightVars
    /\ closedPending' = (closedPending /\ (mountBinding \/ ConnBinding > 1))
    /\ UNCHANGED interrupted
    /\ UNCHANGED <<mountBinding, relayRunning, mounted, discs>>

\* variant: a send the transport reports as failed also closes the link
ConnSendCallbackClosesLink(r, err) ==
    /\ NoMicrotask
    /\ r \in Conns
    /\ r.pc \in {"awaitCmd", "awaitStreamon"}
    /\ IF err
       THEN /\ conns' = Swap(conns, r,
                   ConnectFail(r, SendError(r.log[Len(r.log)]),
                               Append(r.log, IF r.pc = "awaitCmd" THEN "command:err"
                                             ELSE "streamon:err")))
            /\ DisconnectMarkIdle
            /\ Close(FALSE)
            /\ UNCHANGED errorMessage
       ELSE /\ conns' = Swap(conns, r, [r EXCEPT
                   !.pc = IF r.pc = "awaitCmd" THEN "delay1" ELSE "delay2",
                   !.log = Append(@, IF r.pc = "awaitCmd" THEN "command:ok"
                                     ELSE "streamon:ok")])
            /\ UNCHANGED <<reduxVars, commandSocket, statusCallback>>
    /\ notified' = <<>>
    /\ NoParse
    /\ UNCHANGED flightVars
    /\ UNCHANGED historyVars
    /\ UNCHANGED <<mountBinding, leaked, failed, relayRunning, mounted, discs>>

\* variant: a send the transport reports as failed is logged and the
\* sequence goes on
ConnSendCallbackLenient(r, err) ==
    /\ NoMicrotask
    /\ r \in Conns
    /\ r.pc \in {"awaitCmd", "awaitStreamon"}
    /\ conns' = Swap(conns, r, [r EXCEPT
           !.pc = IF r.pc = "awaitCmd" THEN "delay1" ELSE "delay2",
           !.log = Append(@, IF r.pc = "awaitCmd"
                             THEN (IF err THEN "command:err" ELSE "command:ok")
                             ELSE (IF err THEN "streamon:err" ELSE "streamon:ok"))])
    /\ notified' = <<>>
    /\ NoParse
    /\ UNCHANGED flightVars
    /\ UNCHANGED historyVars
    /\ UNCHANGED <<linkVars, reduxVars, relayRunning, mounted, discs>>

\* the send callback of 'command' or of 'streamon'; on success the 300 ms
\* wait follows
ConnSendCallback(r, err) ==
    /\ NoMicrotask
    /\ r \in Conns
    /\ r.pc \in {"awaitCmd", "awaitStreamon"}
    /\ IF err
       THEN /\ conns' = Swap(conns, r,
                   ConnectFail(r, SendError(r.log[Len(r.log)]),
                               Append(r.log, IF r.pc = "awaitCmd" THEN "command:err"
                                             ELSE "streamon:err")))
            /\ DisconnectMarkIdle
            /\ UNCHANGED errorMessage
       ELSE /\ conns' = Swap(conns, r, [r EXCEPT
                   !.pc = IF r.pc = "awaitCmd" THEN "delay1" ELSE "delay2",
                   !.log = Append(@, IF r.pc = "awaitCmd" THEN "command:ok"
                                     ELSE "streamon:ok")])
            /\ UNCHANGED reduxVars
    /\ notified' = <<>>
    /\ NoParse
    /\ UNCHANGED flightVars
    /\ UNCHANGED historyVars
    /\ UNCHANGED <<linkVars, relayRunning, mounted, discs>>

\* variant: the first timer goes straight to ffmpegService.start(port)
ConnectSkipStreamon(r) ==
    /\ NoMicrotask
    /\ r \in Conns
    /\ r.pc = "delay1"
    /\ conns' = Swap(conns, r, [r EXCEPT !.pc = "awaitRelay",
                                  !.log = Append(@, "relayStart")])
    /\ notified' = <<>>
    /\ NoParse
    /\ UNCHANGED flightVars
    /\ UNCHANGED historyVars
    /\ UNCHANGED <<linkVars, reduxVars, relayRunning, mounted, discs>>

\* the first 300 ms timer fires: sendCommand('streamon')
ConnectSendStreamon(r) ==
    /\ NoMicrotask
    /\ r \in Conns
    /\ r.pc = "delay1"
    /\ IF SendCommand = NotOpen
       THEN /\ conns' = Swap(conns, r,
                   ConnectFail(r, NotOpen, r.log \o <<"streamon", "streamon:err">>))
            /\ DisconnectMarkIdle
            /\ UNCHANGED errorMessage
       ELSE /\ conns' = Swap(conns, r, [r EXCEPT !.pc = "awaitStreamon",
                                          !.log = Append(@, "streamon")])
            /\ UNCHANGED reduxVars
    /\ notified' = <<>>
    /\ NoParse
    /\ UNCHANGED flightVars
    /\ UNCHANGED historyVars
    /\ UNCHANGED <<linkVars, relayRunning, mounted, discs>>

\* the second 300 ms timer fires: ffmpegService.start(port)
ConnectStartRelay(r) ==
    /\ NoMicrotask
    /\ r \in Conns
    /\ r.pc = "delay2"
    /\ conns' = Swap(conns, r, [r EXCEPT !.pc = "awaitRelay",
                                  !.log = Append(@, "relayStart")])
    /\ notified' = <<>>
    /\ NoParse
    /\ UNCHANGED flightVars
    /\ UNCHANGED historyVars
    /\ UNCHANGED <<linkVars, reduxVars, relayRunning, mounted, discs>>

\* ffmpegService.start() settles: setStreaming(true), or the catch block
RelayStartSettles(r, ok) ==
    /\ NoMicrotask
    /\ r \in Conns
    /\ r.pc = "awaitRelay"
    /\ IF ok
       THEN /\ relayRunning' = TRUE
            /\ SetStreamingTrue
            /\ conns' = Swap(conns, r, [r EXCEPT !.pc = "finally",
                                          !.log = @ \o <<"relayStart:ok", "live">>])
       ELSE /\ UNCHANGED relayRunning
            /\ conns' = Swap(conns, r, ConnectFail(r, "errRelay", Append(r.log, "relayStart:err")))
            /\ DisconnectMarkIdle
            /\ UNCHANGED errorMessage
    /\ notified' = <<>>
    /\ NoParse
    /\ UNCHANGED flightVars
    /\ UNCHANGED historyVars
    /\ UNCHANGED <<linkVars, mounted, discs>>

\* return true, in the same run as setStreaming(true): the finally block and
\* the fulfilled reducer
ConnectFinally(r) ==
    /\ r \in Conns
    /\ r.pc = "finally"
    /\ ConnectFulfilled
    /\ conns' = Swap(conns, r, [r EXCEPT !.pc = "done", !.outcome = "fulfilled"])
    /\ notified' = <<>>
    /\ NoParse
    /\ UNCHANGED flightVars
    /\ UNCHANGED historyVars
    /\ UNCHANGED <<linkVars, relayRunning, mounted, discs>>

\* variant: the catch block does not await the disconnect it dispatched
ConnectAfterDisconnectEarly(r) ==
    /\ r \in Conns
    /\ r.pc = "awaitDisc"
    /\ ConnectRejected(r.cause)
    /\ conns' = Swap(conns, r, [r EXCEPT !.pc = "done", !.outcome = "rejected"])
    /\ notified' = <<>>
    /\ NoParse
    /\ UNCHANGED flightVars
    /\ UNCHANGED historyVars
    /\ UNCHANGED <<linkVars, relayRunning, mounted, discs>>

\* the awaited disconnect has settled: rejectWithValue(error.message)
ConnectAfterDisconnect(r) ==
    /\ r \in Conns
    /\ r.pc = "awaitDisc"
    /\ r.td.pc = "done"
    /\ ConnectRejected(r.cause)
    /\ conns' = Swap(conns, r, [r EXCEPT !.pc = "done", !.outcome = "rejected"])
    /\ notified' = <<>>
    /\ NoParse
    /\ UNCHANGED flightVars
    /\ UNCHANGED historyVars
    /\ UNCHANGED <<linkVars, relayRunning, mounted, discs>>

\* handleConnect's promise has settled; its catch handler does nothing
ConnectSettled(r) ==
    /\ r \in Conns
    /\ r.pc = "done"
    /\ conns' = Del(conns, r)
    /\ notified' = <<>>
    /\ NoParse
    /\ UNCHANGED flightVars
    /\ UNCHANGED historyVars
    /\ UNCHANGED <<linkVars, reduxVars, relayRunning, mounted, discs>>

\* ---------------------------------------------------- flight commands
\* The handlers of a render close over that render's isConnected; a render
\* follows every change of the store, so a button pressed on the screen runs
\* the handler of the current state.  The onPress of the emergency
\* confirmation is created when the alert is shown and is run when the user
\* confirms.  The alert is modal: while it is shown the buttons of the
\* screen take no press.
FlightCommands == {"takeoff", "land"}
NotConnectedError == <<"Cannot send command, drone not connected.", "">>
\* "Cmd Fail: <command>: <message>", kept as the prefix and error.message
CmdFail(message) == <<"Cmd Fail", message>>

\* sendFlightCommand up to the await of sendCommand's promise, and the
\* catch block when the promise is already rejected
SendFlightCommand(isConnected, command) ==
    IF ~isConnected
    THEN /\ errorMessage' = NotConnectedError
         /\ UNCHANGED <<isConnecting, isStreaming, flights>>
    ELSE IF SendCommand = NotOpen
    THEN /\ errorMessage' = CmdFail(NotOpen)
         /\ UNCHANGED <<isConnecting, isStreaming, flights>>
    ELSE /\ flights < MaxFlight
         /\ flights' = flights + 1
         /\ UNCHANGED reduxVars

\* handleTakeoff, handleLand
HandleFlightCommand(command) ==
    /\ mounted
    /\ alertGate = "none"
    /\ NoMicrotask
    /\ SendFlightCommand(isStreaming, command)
    /\ notified' = <<>>
    /\ NoParse
    /\ UNCHANGED <<linkVars, relayRunning, mounted, conns, discs, historyVars, alertGate>>

\* handleEmergency: the confirmation is shown
HandleEmergency ==
    /\ mounted
    /\ alertGate = "none"
    /\ NoMicrotask
    /\ alertGate' = IF isStreaming THEN "live" ELSE "idle"
    /\ notified' = <<>>
    /\ NoParse
    /\ UNCHANGED <<linkVars, reduxVars, relayRunning, mounted, conns, discs, historyVars,
                   flights>>

\* "Cancel"
CancelEmergency ==
    /\ alertGate # "none"
    /\ NoMicrotask
    /\ alertGate' = "none"
    /\ notified' = <<>>
    /\ NoParse
    /\ UNCHANGED <<linkVars, reduxVars, relayRunning, mounted, conns, discs, historyVars,
                   flights>>

\* "Confirm Stop": the sendFlightCommand the alert was created with
ConfirmEmergency ==
    /\ alertGate # "none"
    /\ NoMicrotask
    /\ SendFlightCommand(alertGate = "live", "emergency")
    /\ alertGate' = "none"
    /\ notified' = <<>>
    /\ NoParse
    /\ UNCHANGED <<linkVars, relayRunning, mounted, conns, discs, historyVars>>

\* the send callback of a flight command, and sendFlightCommand after its
\* await
FlightSendCallback(err) ==
    /\ NoMicrotask
    /\ flights > 0
    /\ flights' = flights - 1
    /\ IF err
       THEN /\ errorMessage' = CmdFail("errSend")
            /\ UNCHANGED <<isConnecting, isStreaming>>
       ELSE UNCHANGED reduxVars
    /\ notified' = <<>>
    /\ NoParse
    /\ UNCHANGED <<linkVars, relayRunning, mounted, conns, discs, historyVars, alertGate>>

\* handleAppStateChange: the application leaves the foreground
AppStateChange ==
    /\ mounted
    /\ NoMicrotask
    /\ isStreaming
    /\ BagCardinality(discs) < MaxDisc
    /\ DisconnectMarkIdle
    /\ discs' = Put(discs, StartedDisc)
    /\ UNCHANGED closedPending
    /\ interrupted' = (interrupted \/ \E r \in Conns : r.pc # "done")
    /\ notified' = <<>>
    /\ NoParse
    /\ UNCHANGED <<linkVars, errorMessage, relayRunning, mounted, conns, flightVars>>

\* ------------------------------------------------------------ the program
Next ==
    \/ \E r \in {"pending", "errCreate"} : Mount(r)
    \/ \E err \in BOOLEAN : MountBindCallback(err)
    \/ SocketError
    \/ \E m \in Msgs : Message(m)
    \/ HandleDisconnect
    \/ \E t \in TdTargets : \E ok \in BOOLEAN : RelayStopSettles(t, ok)
    \/ \E t \in TdTargets : \E err \in BOOLEAN : DiscSendCallback(t, err)
    \/ \E t \in TdTargets : \E thrown \in BOOLEAN : DisconnectFinish(t, thrown)
    \/ \E d \in Discs : DisconnectSettled(d)
    \/ \E r \in {"open", "pending", "errCreate"} : HandleConnect(r)
    \/ \E r \in Conns : \E err \in BOOLEAN : ConnBindCallback(r, err)
    \/ \E r \in Conns : \E err \in BOOLEAN : ConnSendCallback(r, err)
    \/ \E r \in Conns : ConnectSendStreamon(r)
    \/ \E r \in Conns : ConnectStartRelay(r)
    \/ \E r \in Conns : \E ok \in BOOLEAN : RelayStartSettles(r, ok)
    \/ \E r \in Conns : ConnectFinally(r)
    \/ \E r \in Conns : ConnectAfterDisconnect(r)
    \/ \E r \in Conns : ConnectSettled(r)

Spec == Init /\ [][Next]_vars

\* the program with the flight controls of the screen in use
FlightNext ==
    \/ Next
    \/ \E command \in FlightCommands : HandleFlightCommand(command)
    \/ HandleEmergency
    \/ CancelEmergency
    \/ ConfirmEmergency
    \/ \E err \in BOOLEAN : FlightSendCallback(err)
    \/ AppStateChange

FlightSpec == Init /\ [][FlightNext]_vars

\* ------------------------------------------------------------- fairness
\* The event loop runs every queued microtask before the next event, and
\* every pending timer and callback of a disconnect is eventually run.
Microtask ==
    \/ \E r \in Conns : ConnectFinally(r) \/ ConnectAfterDisconnect(r) \/ ConnectSettled(r)
    \/ \E d \in Discs : DisconnectSettled(d)

\* the positions of a disconnect that has not returned
DiscPositions == {"awaitStop", "awaitOff", "delay"}

\* the callback or the timer a disconnect at position v awaits is run
DiscAdvance(v) ==
    \E t \in TdTargets :
        /\ TdRec(t).pc = v
        /\ \/ \E ok \in BOOLEAN : RelayStopSettles(t, ok)
           \/ \E err \in BOOLEAN : DiscSendCallback(t, err)
           \/ \E thrown \in BOOLEAN : DisconnectFinish(t, thrown)

FairSpec ==
    /\ Spec
    /\ WF_vars(Microtask)
    /\ \A v \in DiscPositions : SF_vars(DiscAdvance(v))

\* what a connect in flight awaits is eventually run: the bind and send
\* callbacks, the timers, the relay's promise, and the steps of the
\* disconnect its catch block awaits
ConnAdvance ==
    \E r \in Conns :
        \/ \E err \in BOOLEAN : ConnBindCallback(r, err)
        \/ \E err \in BOOLEAN : ConnSendCallback(r, err)
        \/ ConnectSendStreamon(r)
        \/ ConnectStartRelay(r)
        \/ \E ok \in BOOLEAN : RelayStartSettles(r, ok)
        \/ \E ok \in BOOLEAN : RelayStopSettles(<<"conn", r>>, ok)
        \/ \E err \in BOOLEAN : DiscSendCallback(<<"conn", r>>, err)
        \/ \E thrown \in BOOLEAN : DisconnectFinish(<<"conn", r>>, thrown)

FairConnectSpec ==
    /\ Spec
    /\ WF_vars(Microtask)
    /\ SF_vars(ConnAdvance)

\* ------------------------------------------ the Telemetry Codec on its own
MaxLine == 7        \* length of the lines enumerated in full

\* the characters of the enumerated lines
Chars == {"a", "1", ":", ";", " "}

\* longer lines: the examples of the specification, keys and values with
\* whitespace around them, a line ending in a newline, and the keys "error"
\* and "__proto__"
ExampleLines ==
    { <<"a", ":", "1", ";", "b", ":", "2", ";">>,
      <<"a", ":", "1", ";", ";", "b", ":", "2", ";">>,
      <<"a", ":", "1", ";", "a", ":", "2", ";">>,
      <<"a", ":", "1", ":", "2", ";">>,
      <<" ", ":", "5", ";">>,
      <<"_", "_", "p", "r", "o", "t", "o", "_", "_", ":", "1", ";">>,
      <<"_", "_", "p", "r", "o", "t", "o", "_", "_", ":", "1", ";", "_", "_", "p", "r", "o", "t", "o", "_", "_", ":", "2", ";">>,
      <<" ", "a", " ", ":", " ", "1", " ", ";", "b", ":", "2", ";", "\n">>,
      <<"e", "r", "r", "o", "r", ":", "1", ";">> }

Lines == UNION {[1..n -> Chars] : n \in 0..MaxLine} \cup ExampleLines

\* a line is handed to parseStatusString; nothing else runs
ParseInit ==
    /\ commandSocket = 0
    /\ statusCallback = "null"
    /\ mountBinding = FALSE
    /\ leaked = 0
    /\ failed = 0
    /\ isConnecting = FALSE
    /\ isStreaming = FALSE
    /\ errorMessage = NoError
    /\ relayRunning = FALSE
    /\ mounted = FALSE
    /\ conns = EmptyBag
    /\ discs = EmptyBag
    /\ notified = <<>>
    /\ statusStr \in Lines
    /\ parsedData = NoCall
    /\ interrupted = FALSE
    /\ closedPending = FALSE
    /\ alertGate = "none"
    /\ flights = 0

ParseLine ==
    /\ parsedData = NoCall
    /\ parsedData' = ParseStatusString(statusStr)
    /\ UNCHANGED <<linkVars, reduxVars, relayRunning, mounted, conns, discs, notified, statusStr,
                   historyVars, flightVars>>

ParseNext == ParseLine

ParseSpec == ParseInit /\ [][ParseNext]_vars

\* the call has returned its object
Parsed == parsedData.ret = "object"

\* ------------------------------------------------------------ properties
IsPrefix(s, u) == Len(s) <= Len(u) /\ \A i \in 1..Len(s) : s[i] = u[i]
Has(log, e) == \E i \in 1..Len(log) : log[i] = e
Before(log, a, b) == \A j \in 1..Len(log) : log[j] = b => \E i \in 1..(j - 1) : log[i] = a
Last(log) == log[Len(log)]

\* every disconnect thunk with its log, those of settled connects included
AllTeardowns == Discs \cup {r.td : r \in {x \in Conns : x.td.pc # "idle"}}

\* the disconnect thunks that have made their first run and no other
AwaitingStop ==
    BagCardinality([d \in {x \in Discs : x.pc = "awaitStop"} |-> discs[d]])
    + BagCardinality([r \in {x \in Conns : x.pc = "awaitDisc" /\ x.td.pc = "awaitStop"}
                        |-> conns[r]])

\* a connectAndStream sequence that has not returned
InFlight(r) == r.pc # "done"

\* the test handleConnect makes before it dispatches connectAndStream
ConnectGuard == ~isConnecting /\ ~isStreaming

FailEntries == {"open:err", "command:err", "streamon:err", "relayStart:err"}

\* the errors the failing step can have raised
StepCauses(e) ==
    IF e = "open:err" THEN {"errCreate", "errBind"}
    ELSE IF e = "command:err" THEN {SendError("command")}
    ELSE IF e = "streamon:err" THEN {SendError("streamon"), NotOpen}
    ELSE IF e = "relayStart:err" THEN {"errRelay"}
    ELSE {}

StreamonFailedLog == <<"open", "open:ok", "command", "command:ok", "streamon", "streamon:err">>

\* C1: a connect whose 'streamon' send failed has, in this order, opened the
\* link, sent 'command', attempted 'streamon', and then run the teardown
\* relay stop, 'streamoff', close, unlock; it never issues a relay start, and
\* when it settles it is rejected with the error of the 'streamon' send,
\* whatever the teardown steps did.
C1_StreamonFailureOrder ==
    \A r \in Conns :
        Has(r.log, "streamon:err") =>
            /\ r.log = StreamonFailedLog
            /\ r.pc \in {"awaitDisc", "done"}
            /\ r.cause \in {SendError("streamon"), NotOpen}
            /\ r.td.log # <<>> /\ IsPrefix(r.td.log, DisconnectOrder)
            /\ r.pc = "done" =>
                  /\ r.outcome = "rejected"
                  /\ r.td.log = DisconnectOrder
                  /\ errorMessage = ConnectError(r.cause)

\* C1 witness: a connect rejected for a failed 'streamon' send whose teardown
\* steps all failed as well
C1_Witness ==
    \E r \in Conns :
        /\ r.pc = "done"
        /\ r.cause = SendError("streamon")
        /\ r.td.allFailed

\* C2: a connect that fails at any step goes to the teardown with the error
\* of that step; it is rejected only when the whole disconnect sequence has
\* run, and when it has settled the last error is 'Connect Error: <cause>'
\* with the cause of the failed step, never null and never a teardown error.
C2_FailureRunsTeardownKeepsCause ==
    \A r \in Conns :
        /\ Last(r.log) \in FailEntries =>
              /\ r.pc \in {"awaitDisc", "done"}
              /\ r.cause \in StepCauses(Last(r.log))
        /\ r.outcome = "rejected" =>
              /\ r.pc = "done"
              /\ Last(r.log) \in FailEntries
              /\ r.td.pc = "done"
              /\ r.td.log = DisconnectOrder
              /\ errorMessage = ConnectError(r.cause)
              /\ errorMessage # NoError

\* C2 witness: a connect rejected for a failed relay start whose teardown
\* steps all failed
C2_Witness ==
    \E r \in Conns :
        /\ r.outcome = "rejected"
        /\ Last(r.log) = "relayStart:err"
        /\ r.td.allFailed

\* C3 (as claimed): at most one connectAndStream sequence is executing at any
\* time, and while one is executing handleConnect starts no other.
C3_NoOverlappingConnect ==
    /\ BagCardinality([r \in {x \in Conns : InFlight(x)} |-> conns[r]]) <= 1
    /\ \A r \in Conns : InFlight(r) => ~ConnectGuard

\* C4: a sendCommand a connect issues after the link was closed under it
\* fails with 'Socket not initialized'; such a connect goes to the teardown,
\* is rejected and never becomes Live, and a disconnect that finishes while
\* a connect is in flight has run all its steps.
C4_ClosedUnderConnect ==
    /\ [](\A r \in Conns :
            r.cause = NotOpen =>
                /\ r.log = StreamonFailedLog
                /\ r.pc \in {"awaitDisc", "done"}
                /\ r.outcome # "fulfilled"
                /\ r.pc = "done" =>
                      /\ r.outcome = "rejected"
                      /\ r.td.log = DisconnectOrder
                      /\ errorMessage = ConnectError(NotOpen))
    /\ [](\A d \in Discs :
            (d.pc = "done" /\ Conns # {}) => d.log = DisconnectOrder)
    /\ [][\A r \in Conns :
            (r.pc = "delay1" /\ commandSocket = 0
               /\ CopiesIn(r, conns') < CopiesIn(r, conns))
            => BagIn(ConnectFail(r, NotOpen, r.log \o <<"streamon", "streamon:err">>),
                     conns')]_vars

\* C4 witness: a connect in teardown because its 'streamon' send found the
\* link closed
C4_Witness ==
    \E r \in Conns :
        /\ r.pc = "awaitDisc"
        /\ r.cause = NotOpen
        /\ commandSocket = 0

\* C5 (as claimed): a socket error on an open link with a registered
\* observer ends with that observer invoked once with an error payload.
C5_ObserverNotifiedOfSocketError ==
    [][(SocketError /\ commandSocket # 0 /\ Truthy(statusCallback))
         => notified' = <<"error">>]_vars

\* C6 (as claimed): once a connect has passed its open step and the link is
\* open, a telemetry observer is registered on the link.
C6_ObserverAfterOpen ==
    \A r \in Conns :
        (Has(r.log, "open:ok") /\ InFlight(r) /\ commandSocket # 0)
            => Truthy(statusCallback)

\* C7: the relay is started only after 'streamon' was sent successfully in
\* the same connect sequence, the session is marked Live only after the
\* relay start has resolved, and every disconnect issues the relay stop
\* before it closes the link.
C7_RelayOrdering ==
    /\ \A r \in Conns :
          /\ Before(r.log, "streamon:ok", "relayStart")
          /\ Before(r.log, "relayStart:ok", "live")
          /\ r.outcome = "fulfilled" => r.log = ConnectOrder
    /\ \A d \in AllTeardowns : Before(d.log, "relayStop", "close")

\* C7 witness: a connect has just made the session Live
C7_Witness ==
    \E r \in Conns :
        /\ r.outcome = "fulfilled"
        /\ Has(r.log, "live")
        /\ isStreaming
        /\ relayRunning

\* C8: whatever fails, a disconnect attempts relay stop, 'streamoff', close
\* and unlock in this order and returns only when all four were attempted.
C8_TeardownStepsIsolated ==
    \A d \in AllTeardowns :
        /\ IsPrefix(d.log, DisconnectOrder)
        /\ d.pc = "awaitStop" => d.log = <<"relayStop">>
        /\ d.pc \in {"awaitOff", "delay"} => d.log = <<"relayStop", "streamoff">>
        /\ d.pc = "done" => d.log = DisconnectOrder

\* C8 witness: a disconnect has returned although relay stop, the
\* 'streamoff' send and the release of the socket all failed
C8_Witness ==
    \E d \in Discs :
        /\ d.pc = "done"
        /\ d.allFailed

C10_FlagsClearedBeforeCleanup ==
    [][AwaitingStop' > AwaitingStop => (~isStreaming' /\ ~isConnecting')]_vars

\* C10 witness: a disconnect requested during a connect awaits its relay
\* stop, and the session is neither Connecting nor Live
C10_Witness ==
    \E d \in Discs :
        /\ d.pc = "awaitStop"
        /\ \E r \in Conns : r.pc \in {"awaitInit", "awaitCmd", "delay1", "awaitStreamon",
                                      "delay2", "awaitRelay"}
        /\ ~isConnecting
        /\ ~isStreaming

\* C11: when no connectAndStream is in flight isConnecting is false, so a
\* connect that has settled, fulfilled or rejected, has left it cleared; and
\* every connect in flight is followed by a connect settling with
\* isConnecting false.
C11_ConnectingCleared ==
    /\ []((\A r \in Conns : ~InFlight(r)) => ~isConnecting)
    /\ (\E r \in Conns : InFlight(r)) ~> (\E r \in Conns : r.pc = "done" /\ ~isConnecting)

\* C11 witness: a connect has settled fulfilled and isConnecting is false
C11_Witness ==
    \E r \in Conns :
        /\ r.pc = "done"
        /\ r.outcome = "fulfilled"
        /\ ~isConnecting

\* the session is Idle: not connecting, not streaming, link closed
IdleSession == ~isConnecting /\ ~isStreaming /\ commandSocket = 0

\* C12: a disconnect dispatched in an Idle session leaves it Idle; with the
\* link closed its 'streamoff' send is rejected at once and swallowed (the
\* thunk goes on to the 100 ms wait), its close() changes nothing, and it
\* returns fulfilled after all four steps with the session Idle and the last
\* error null.
C12_DisconnectWhenIdle ==
    /\ [][(HandleDisconnect /\ IdleSession)
            => (IdleSession' /\ UNCHANGED <<linkVars, errorMessage>>)]_vars
    /\ [][\A t \in TdTargets :
            ((\E ok \in BOOLEAN : RelayStopSettles(t, ok)) /\ IdleSession)
            => /\ IdleSession'
               /\ UNCHANGED <<linkVars, errorMessage>>
               /\ \E d \in Teardowns' :
                     d.pc = "delay" /\ d.log = <<"relayStop", "streamoff">>]_vars
    /\ [][\A t \in TdTargets :
            ((\E thrown \in BOOLEAN : DisconnectFinish(t, thrown)) /\ IdleSession)
            => /\ IdleSession'
               /\ UNCHANGED linkVars
               /\ errorMessage' = NoError
               /\ \E d \in Teardowns' :
                     /\ d.pc = "done"
                     /\ d.outcome = "fulfilled"
                     /\ d.log = DisconnectOrder]_vars

\* C12 witness: a disconnect has returned in a session whose link was never
\* opened and that never connected (the observer of the mount effect is
\* still the registered one)
C12_Witness ==
    \E d \in Discs :
        /\ d.pc = "done"
        /\ IdleSession
        /\ statusCallback = "handler"
        /\ ~mountBinding
        /\ Conns = {}

\* C13 (as claimed): at most one socket is created and not released, and no
\* bound socket exists besides the one held in commandSocket.
C13_SingleLinkHandle ==
    /\ Allocated <= 1
    /\ leaked = 0

\* an initialize() has been called and no close() has released its socket
\* since: the socket is held, or still awaits its bind callback
OpenedNotClosed == commandSocket # 0 \/ mountBinding \/ ConnBinding > 0

\* C14 (as claimed): an initialize() called after another one with no close
\* in between (here the one connectAndStream makes) creates no socket,
\* resolves, so that the connect goes on to its 'command' send, and leaves
\* its own argument registered as the observer.
C14_SecondInitializeReuses ==
    [][((\E r \in {"open", "pending", "errCreate"} : HandleConnect(r)) /\ OpenedNotClosed)
         => /\ Allocated' = Allocated
            /\ \E x \in Conns' : x.pc = "awaitCmd"
            /\ statusCallback' = "undefined"]_vars

\* a step in which an initialize() call is rejected: createSocket throws, or
\* the bind callback reports an error
InitializeFails ==
    \/ Mount("errCreate")
    \/ MountBindCallback(TRUE)
    \/ HandleConnect("errCreate")
    \/ \E r \in Conns : ConnBindCallback(r, TRUE)

\* C15 (as claimed): when initialize() has failed no socket is held, no
\* observer is registered and the socket that failed is not left allocated.
C15_FailedInitializeKeepsNothing ==
    [][InitializeFails
         => /\ commandSocket' = 0
            /\ ~Truthy(statusCallback')
            /\ failed' = 0]_vars

\* the datagrams handed to the transport whose send callback has not run
PendingSends ==
    BagCardinality([r \in {x \in Conns : x.pc \in {"awaitCmd", "awaitStreamon"}}
                      |-> conns[r]])
    + BagCardinality([d \in {x \in Discs : x.pc = "awaitOff"} |-> discs[d]])
    + BagCardinality([r \in {x \in Conns : x.pc = "awaitDisc" /\ x.td.pc = "awaitOff"}
                        |-> conns[r]])

\* C16: a sendCommand called while no link is open is rejected with 'Socket
\* not initialized', hands no datagram to a socket and leaves the link as it
\* was: the 'streamon' send of a connect takes it to the catch block with
\* that error, the 'streamoff' send of a disconnect is followed by the wait.
C16_SendWhenClosed ==
    /\ [][\A r \in Conns :
            (ConnectSendStreamon(r) /\ commandSocket = 0)
            => /\ UNCHANGED linkVars
               /\ PendingSends' = PendingSends
               /\ \E x \in Conns' : x.pc = "awaitDisc" /\ x.cause = NotOpen]_vars
    /\ [][\A t \in TdTargets :
            ((\E ok \in BOOLEAN : RelayStopSettles(t, ok)) /\ commandSocket = 0)
            => /\ UNCHANGED linkVars
               /\ PendingSends' = PendingSends
               /\ \E d \in Teardowns' : d.pc = "delay"]_vars

\* C16 witness: a connect has just had its 'streamon' send rejected on a
\* link that was closed under it; no send is pending
C16_Witness ==
    \E r \in Conns :
        /\ r.cause = NotOpen
        /\ r.td.pc = "awaitStop"
        /\ commandSocket = 0
        /\ statusCallback = "null"
        /\ PendingSends = 0

\* a step in which close() is called
CallsClose ==
    \/ SocketError
    \/ \E t \in TdTargets : \E thrown \in BOOLEAN : DisconnectFinish(t, thrown)

\* C17: close() always leaves the link closed, also when socket.close()
\* throws; called with the link closed (never opened, or closed before) it
\* changes nothing; and the disconnect that awaits it always goes on to
\* return fulfilled.
C17_CloseSafeIdempotent ==
    /\ [][CallsClose
            => /\ commandSocket' = 0
               /\ commandSocket = 0 => UNCHANGED linkVars]_vars
    /\ [][\A t \in TdTargets :
            (\E thrown \in BOOLEAN : DisconnectFinish(t, thrown))
            => \E d \in Teardowns' : d.pc = "done" /\ d.outcome = "fulfilled"]_vars

\* C17 witness: the disconnect a connect awaits has returned although the
\* release of the socket threw, and the link is closed
C17_Witness ==
    \E r \in Conns :
        /\ r.pc = "awaitDisc"
        /\ r.td.pc = "done"
        /\ r.td.allFailed
        /\ commandSocket = 0

\* C18 (as claimed): whatever the state close() is called in, no observer
\* is registered once it has returned.
C18_CloseClearsObserver ==
    [][CallsClose => ~Truthy(statusCallback')]_vars

\* C19: the send callback alone settles sendCommand and changes nothing of
\* the link.  With an error the connect goes to its catch block with that
\* transport error; without one the thunk goes on to its wait, no inbound
\* datagram being needed; the 'streamoff' send of a disconnect goes on to
\* the wait either way.
C19_SendCallbackFrame ==
    /\ [][\A r \in Conns :
            ConnSendCallback(r, TRUE)
            => /\ UNCHANGED linkVars
               /\ \E x \in Conns' :
                     /\ x.pc = "awaitDisc"
                     /\ x.cause = SendError(Last(r.log))
                     /\ x.cause \in {"errSend:command", "errSend:streamon"}]_vars
    /\ [][\A r \in Conns :
            ConnSendCallback(r, FALSE)
            => /\ UNCHANGED linkVars
               /\ \E x \in Conns' :
                     x.pc = (IF r.pc = "awaitCmd" THEN "delay1" ELSE "delay2")]_vars
    /\ [][\A t \in TdTargets :
            (\E err \in BOOLEAN : DiscSendCallback(t, err))
            => /\ UNCHANGED linkVars
               /\ \E d \in Teardowns' : d.pc = "delay"]_vars

\* C19 witness: the 'command' send of a connect has just been reported as
\* failed by the transport, and the socket is still held
C19_Witness ==
    \E r \in Conns :
        /\ r.cause = SendError("command")
        /\ r.td.pc = "awaitStop"
        /\ commandSocket # 0

\* the text m contains the character ch
HasChar(m, ch) == \E i \in 1..Len(m) : m[i] = ch

\* C20: the 'message' handler passes a datagram to parseStatusString if and
\* only if its text contains a ':' and a ';'; "ok" and "error" are never
\* parsed, "a:1;b:2;" always is, and for a datagram that is not parsed the
\* observer is not called.
C20_TelemetryRouting ==
    [][\A m \in Msgs :
         Message(m)
         => /\ Has(notified', "parse") <=> (HasChar(m, ":") /\ HasChar(m, ";"))
            /\ ~Has(notified', "parse") => notified' = <<>>
            /\ m \in {<<"o", "k">>, <<"e", "r", "r", "o", "r">>} => notified' = <<>>
            /\ m = <<"a", ":", "1", ";", "b", ":", "2", ";">> => Has(notified', "parse")]_vars

\* C20 witness: a datagram has been parsed with no observer registered,
\* during a connect
C20_Witness ==
    /\ notified = <<"parse">>
    /\ \E r \in Conns : InFlight(r)

\* the calls of the observer a handler made
ObserverCalls(n) == Cardinality({i \in 1..Len(n) : n[i] \in {"snapshot", "error"}})

\* C21: handling an inbound datagram is one step that changes no thunk; it
\* calls the observer at most once, only for a datagram classified as
\* telemetry, and then with the snapshot parsed from that very datagram; it
\* never hands the observer an error notice, a parse that returned no object
\* reaches neither the observer nor the session error, and the session error
\* changes only when the delivered snapshot itself carries an error field.
C21_ObserverOncePerDatagram ==
    [][\A m \in Msgs :
         Message(m)
         => /\ ObserverCalls(notified') <= 1
            /\ ~Has(notified', "error")
            /\ Has(notified', "snapshot")
                  => /\ HasChar(m, ":") /\ HasChar(m, ";")
                     /\ statusStr' = m
                     /\ parsedData' = ParseStatusString(m)
            /\ parsedData'.ret # "object"
                  => /\ ObserverCalls(notified') = 0
                     /\ errorMessage' = errorMessage
            /\ errorMessage' # errorMessage
                  => /\ Has(notified', "snapshot")
                     /\ ErrorKey \in DOMAIN parsedData'.data
            /\ UNCHANGED <<conns, discs, isConnecting, isStreaming>>]_vars

\* C21 witness: the datagram "a:1;" has been handled with an observer
\* registered, which was called once, with the snapshot {a: 1}
C21_Witness ==
    /\ notified = <<"parse", "snapshot">>
    /\ statusStr = <<"a", ":", "1", ";">>
    /\ parsedData.data = [k \in {<<"a">>} |-> <<"1">>]
    /\ Truthy(statusCallback)

\* ---- the fields of a line, read off the positions of its characters
Min(S) == CHOOSE x \in S : \A y \in S : x <= y
Max(S) == CHOOSE x \in S : \A y \in S : x >= y

\* the text t without the whitespace at its two ends
Strip(t) ==
    LET solid == {i \in 1..Len(t) : t[i] \notin Whitespace}
    IN  IF solid = {} THEN <<>> ELSE SubSeq(t, Min(solid), Max(solid))

\* the fragments of line s, each as the pair of its first and last position:
\* a fragment starts at 1 or after a ';' and ends before the next ';'
FragmentSpans(s) ==
    {<<lo, Min({j \in lo..Len(s) : s[j] = ";"} \cup {Len(s) + 1}) - 1>> :
        lo \in {1} \cup {i + 1 : i \in {j \in 1..Len(s) : s[j] = ";"}}}

Colons(s, f) == {i \in f[1]..f[2] : s[i] = ":"}

\* the fragments that have a ':' and something else than whitespace before
\* the first one
Fields(s) ==
    {f \in FragmentSpans(s) :
        Colons(s, f) # {} /\ Strip(SubSeq(s, f[1], Min(Colons(s, f)) - 1)) # <<>>}

\* key and value of a field: the text before and the text after its first ':'
KeyOf(s, f) == Strip(SubSeq(s, f[1], Min(Colons(s, f)) - 1))
ValueOf(s, f) == Strip(SubSeq(s, Min(Colons(s, f)) + 1, f[2]))

\* f is the last field of the line with its key
LastOfKey(s, f) == \A g \in Fields(s) : KeyOf(s, g) = KeyOf(s, f) => g[1] <= f[1]

\* a line "k1:v1;k2:v2;...;": it ends with ';', and every fragment before the
\* final ';' is a key that is not blank, one ':', and a value that is not empty
ValidLine(s) ==
    /\ s # <<>> /\ s[Len(s)] = ";"
    /\ Len(s) > 1
    /\ \A f \in FragmentSpans(s) :
          f[1] <= Len(s) =>
              /\ f \in Fields(s)
              /\ Cardinality(Colons(s, f)) = 1
              /\ Min(Colons(s, f)) < f[2]

\* C22 (as claimed): for a line "k1:v1;k2:v2;...;" whose keys are not blank
\* and whose keys and values have no ':' or ';', the keys of the returned
\* mapping are exactly the trimmed keys of the line, and each is mapped to
\* its trimmed value (that of its last field, should a key repeat).
C22_ValidLinesParsed ==
    (Parsed /\ ValidLine(statusStr))
    => /\ DOMAIN parsedData.data = {KeyOf(statusStr, f) : f \in Fields(statusStr)}
       /\ \A f \in Fields(statusStr) :
             LastOfKey(statusStr, f)
             => parsedData.data[KeyOf(statusStr, f)] = ValueOf(statusStr, f)

\* C23 (as claimed): a field is split on its first ':' only: when the
\* fragment has more than one ':' the key is the trimmed text before the
\* first one and the value is the whole trimmed text after it ("a:1:2"
\* gives the value "1:2").
C23_SplitOnFirstColon ==
    Parsed
    => \A f \in Fields(statusStr) :
          (Cardinality(Colons(statusStr, f)) > 1
             /\ LastOfKey(statusStr, f)
             /\ KeyOf(statusStr, f) # ProtoKey)
          => /\ KeyOf(statusStr, f) \in DOMAIN parsedData.data
             /\ parsedData.data[KeyOf(statusStr, f)] = ValueOf(statusStr, f)

RECURSIVE Join(_)
\* the fragments put back into one line, a ';' between two of them
Join(frags) ==
    IF frags = <<>> THEN <<>>
    ELSE IF Len(frags) = 1 THEN frags[1]
    ELSE frags[1] \o <<";">> \o Join(Tail(frags))

\* the fragments of the line that have a ':'
WithColon(frags) == SelectSeq(frags, LAMBDA p : HasChar(p, ":"))

\* C24: a fragment without ':' (an empty one from a stray ';' included) is
\* dropped: the parse returns its object, and that object is the one parsed
\* from the line with every such fragment removed; "a:1;;b:2;" gives
\* {a: 1, b: 2}.
C24_ColonlessFragmentsDropped ==
    Parsed
    => /\ parsedData = ParseStatusString(Join(WithColon(Split(statusStr, ";"))))
       /\ DOMAIN parsedData.data = {KeyOf(statusStr, f) : f \in Fields(statusStr)} \ {ProtoKey}
       /\ statusStr = <<"a", ":", "1", ";", ";", "b", ":", "2", ";">>
             => parsedData.data = [k \in {<<"a">>, <<"b">>} |->
                                     IF k = <<"a">> THEN <<"1">> ELSE <<"2">>]

\* C24 witness: a line with a field, a fragment without ':' and another
\* field has been parsed, and both fields are in the result
C24_Witness ==
    /\ Parsed
    /\ \E f \in FragmentSpans(statusStr) :
          /\ Colons(statusStr, f) = {}
          /\ \E g, h \in Fields(statusStr) : g[1] < f[1] /\ f[1] < h[1]
    /\ Cardinality(DOMAIN parsedData.data) = 2

\* C25: every key of a returned mapping is non-empty and has no whitespace
\* at either end, and a fragment whose key is empty or all whitespace adds no
\* entry: a line whose fragments all have such a key (":5", " :5") gives the
\* empty mapping.
C25_KeysTrimmedNonEmpty ==
    Parsed
    => /\ \A k \in DOMAIN parsedData.data :
             /\ k # <<>>
             /\ k[1] \notin Whitespace
             /\ k[Len(k)] \notin Whitespace
       /\ Cardinality(DOMAIN parsedData.data) <= Cardinality(Fields(statusStr))
       /\ Fields(statusStr) = {} => parsedData.data = EmptyMap

\* C25 witness: a line with a fragment whose key is blank and a field whose
\* key has whitespace on both sides has been parsed into one entry
C25_Witness ==
    /\ Parsed
    /\ \E f \in FragmentSpans(statusStr) :
          /\ Colons(statusStr, f) # {}
          /\ f \notin Fields(statusStr)
          /\ Min(Colons(statusStr, f)) > f[1]
    /\ \E g \in Fields(statusStr) :
          /\ statusStr[g[1]] \in Whitespace
          /\ statusStr[Min(Colons(statusStr, g)) - 1] \in Whitespace
    /\ Cardinality(DOMAIN parsedData.data) = 1

\* C26 (as claimed): when several fragments of a line have the same trimmed
\* key, the returned mapping has one entry for that key, and its value is the
\* value of the last of these fragments ("a:1;a:2;" gives {a: 2}).
C26_LastDuplicateWins ==
    Parsed
    => \A f, g \in Fields(statusStr) :
          (/\ f[1] < g[1]
           /\ KeyOf(statusStr, f) = KeyOf(statusStr, g)
           /\ LastOfKey(statusStr, g)
           /\ \A h \in Fields(statusStr) : Cardinality(Colons(statusStr, h)) = 1)
          => /\ KeyOf(statusStr, g) \in DOMAIN parsedData.data
             /\ parsedData.data[KeyOf(statusStr, g)] = ValueOf(statusStr, g)

\* no disconnect thunk is between its start and its return
NoDisconnectRunning == \A d \in Teardowns : d.pc = "done"

\* C27 (as claimed): whenever the session is Live and no disconnect is in
\* progress, the Drone Link holds a bound socket.
C27_LiveImpliesOpenLink ==
    (isStreaming /\ NoDisconnectRunning) => commandSocket # 0

\* C28 (as claimed): a disconnect requested while a connect was in flight,
\* with no connect requested since, is final: in the state in which the last
\* of the connect and the disconnects has just finished, the session is
\* neither Live nor Connecting, the relay is not running and the link is
\* closed.
C28_DisconnectIsFinal ==
    (/\ interrupted
     /\ ~NoMicrotask
     /\ \A r \in Conns : r.pc = "done"
     /\ \A d \in Discs : d.pc = "done")
    => /\ ~isStreaming
       /\ ~isConnecting
       /\ ~relayRunning
       /\ commandSocket = 0

\* C29 (as claimed): in no state of the store are isConnecting and
\* isStreaming both true, the states between two dispatches of a thunk
\* included.
C29_NeverConnectingAndLive == ~(isConnecting /\ isStreaming)

\* a step in which the bind callback of a socket runs
BindCallbackRuns ==
    \/ \E err \in BOOLEAN : MountBindCallback(err)
    \/ \E r \in Conns : \E err \in BOOLEAN : ConnBindCallback(r, err)

\* C30 (as claimed): when close() was called after initialize() had created
\* a socket and before its bind callback, and initialize was not called
\* again, the run of the bind callback leaves the link closed: no socket
\* held and no observer registered.
C30_CloseBeatsPendingOpen ==
    [][(BindCallbackRuns /\ closedPending)
         => (commandSocket' = 0 /\ ~Truthy(statusCallback'))]_vars

\* ---------------------------------------------------------------- C31
\* a run of sendFlightCommand: a press of takeoff or land, or the
\* confirmation of the emergency stop
FlightRequest ==
    \/ \E command \in FlightCommands : HandleFlightCommand(command)
    \/ ConfirmEmergency

\* sendCommand was called once: the datagram was handed to the socket, or
\* the promise was rejected with "Socket not initialized"
OneSendCommand ==
    \/ flights' = flights + 1 /\ commandSocket # 0
    \/ flights' = flights /\ commandSocket = 0 /\ errorMessage' = CmdFail(NotOpen)

\* C31 (as claimed): flight commands are gated on the session being Live.  A
\* takeoff, land or emergency request that runs while isStreaming is false
\* hands no datagram to the socket and sets the error "Cannot send command,
\* drone not connected."; one that runs while isStreaming is true calls
\* sendCommand exactly once; a failed send sets a "Cmd Fail" error; and none
\* of these steps changes isStreaming or isConnecting.
C31_FlightCommandsGated ==
    [][ /\ FlightRequest =>
            /\ IF isStreaming
               THEN OneSendCommand
               ELSE flights' = flights /\ errorMessage' = NotConnectedError
            /\ isStreaming' = isStreaming /\ isConnecting' = isConnecting
        /\ FlightSendCallback(TRUE) =>
            /\ errorMessage' = CmdFail("errSend")
            /\ isStreaming' = isStreaming /\ isConnecting' = isConnecting
      ]_vars

====
